---- MODULE Spec2Model ----
(***************************************************************************)
(* Model of the Pix3D -> TFRecord conversion of                            *)
(* official/vision/beta/projects/mesh_rcnn/data/create_pix3d_tf_record.py  *)
(*                                                                         *)
(* Python values are records tagged by their type in the field t, each     *)
(* type carrying its payload in a field of its own.  Floating-point        *)
(* numbers are exact rationals <<n, d>> in lowest terms with d > 0; the    *)
(* narrowing to float32 that a tf.train.FloatList performs is the operator *)
(* Float32 (24-bit significand, round half to even).                       *)
(***************************************************************************)
EXTENDS Integers, Sequences, FiniteSets, TLC

VARIABLES
  pc,             \* position of main / _create_tf_record_from_pix3d_dir
  out_dir,        \* state of dirname(output_file_prefix) on disk
  index_file,     \* the pix3d json file: "missing", "malformed" or its records
  num_shards,     \* FLAGS.num_shards
  annotations,    \* the list generate_annotations returned
  writers,        \* one record sequence per shard file; <<>> before they are opened
  idx,            \* index of the next annotation the writer hands to create_tf_example
  num_skipped,    \* the writer's running skip count
  frame,          \* outcome of the latest create_tf_example call
  arg,            \* input of the function under test (function specifications)
  ret             \* its outcome

vars == <<pc, out_dir, index_file, num_shards, annotations, writers, idx,
          num_skipped, frame, arg, ret>>

(***************************************************************************)
(* Outcomes of a call: a returned value or a raised exception.             *)
(***************************************************************************)
Ok(v) == [raised |-> "none", value |-> v]

Raise(e) == [raised |-> e]

NoCall == [raised |-> "nocall"]

(***************************************************************************)
(* Exact rational arithmetic.                                              *)
(***************************************************************************)
Abs(n) == IF n < 0 THEN -n ELSE n

RECURSIVE Gcd(_, _)
Gcd(a, b) == IF b = 0 THEN a ELSE Gcd(b, a % b)

Rat(n, d) ==
  LET g == Gcd(Abs(n), Abs(d))
      s == IF d < 0 THEN -1 ELSE 1
  IN  IF n = 0 THEN <<0, 1>> ELSE <<s * (n \div g), s * (d \div g)>>

RMul(p, q) == Rat(p[1] * q[1], p[2] * q[2])

RDiv(p, q) == Rat(p[1] * q[2], p[2] * q[1])

FromInt(i) == <<i, 1>>

\* Nearest integer to a / d (a >= 0, d > 0), ties to the even one.
RoundHalfEvenNat(a, d) ==
  LET q == a \div d
      r == a % d
  IN  IF 2 * r < d THEN q
      ELSE IF 2 * r > d THEN q + 1
      ELSE IF q % 2 = 0 THEN q ELSE q + 1

\* Python's round(x, 0) on a float x = <<n, d>>.
PyRound(x) ==
  IF x[1] < 0 THEN -RoundHalfEvenNat(-x[1], x[2]) ELSE RoundHalfEvenNat(x[1], x[2])

\* int(x): truncation toward zero, as numpy's astype(np.int64) does on floats.
Trunc(x) == IF x[1] < 0 THEN -((-x[1]) \div x[2]) ELSE x[1] \div x[2]

MantBits == 24

\* Binary long division: from the quotient q and remainder r of a / d at
\* scale 2^e, one more bit at a time until q has MantBits bits.
RECURSIVE Grow(_, _, _, _)
Grow(q, r, d, e) ==
  IF q >= 2 ^ (MantBits - 1) THEN <<q, r, e>>
  ELSE Grow(2 * q + (IF 2 * r >= d THEN 1 ELSE 0), (2 * r) % d, d, e + 1)

\* The number of low bits an integer q >= 2^MantBits must lose.
RECURSIVE Excess(_)
Excess(q) == IF q < 2 ^ MantBits THEN 0 ELSE 1 + Excess(q \div 2)

\* The float32 nearest to the rational x: a MantBits-bit significand, ties to
\* even (the exponent range is not modelled; narrowing the float64 result of a
\* single operation gives the same value as rounding the exact result once).
Float32(x) ==
  IF x[1] = 0 THEN <<0, 1>>
  ELSE LET s == IF x[1] < 0 THEN -1 ELSE 1
           q0 == Abs(x[1]) \div x[2]
           r0 == Abs(x[1]) % x[2]
       IN  IF q0 >= 2 ^ MantBits
             THEN LET k == Excess(q0)
                      m == q0 \div (2 ^ k)
                      low == q0 % (2 ^ k)
                      half == 2 ^ (k - 1)
                      up == \/ low > half
                            \/ low = half /\ (r0 > 0 \/ m % 2 = 1)
                  IN  <<s * (m + (IF up THEN 1 ELSE 0)) * (2 ^ k), 1>>
             ELSE LET z == Grow(q0, r0, x[2], 0)
                      up == \/ 2 * z[2] > x[2]
                            \/ 2 * z[2] = x[2] /\ z[1] % 2 = 1
                  IN  Rat(s * (z[1] + (IF up THEN 1 ELSE 0)), 2 ^ z[3])

(***************************************************************************)
(* Python values.                                                          *)
(***************************************************************************)
PyNone == [t |-> "NoneType"]

PyInt(i) == [t |-> "int", i |-> i]

PyFloat(q) == [t |-> "float", f |-> q]

PyBytes(b) == [t |-> "bytes", b |-> b]

PyStr(s) == [t |-> "str", s |-> s]

PyList(items) == [t |-> "list", items |-> items]

PyTuple(items) == [t |-> "tuple", items |-> items]

\* numpy.ndarray: element type, shape, and the elements in row-major order.
NdArray(dtype, shape, data) ==
  [t |-> "ndarray", dtype |-> dtype, shape |-> shape, data |-> data]

\* tf.io.serialize_tensor(tf.convert_to_tensor(v)).numpy(): a byte string
\* that holds the tensor's element type, shape and elements.
TensorBlob(dtype, shape, data) ==
  [proto |-> "TensorProto", dtype |-> dtype, shape |-> shape, data |-> data]

\* str.encode("utf-8")
Utf8(s) == [utf8 |-> s]

(***************************************************************************)
(* tf.train.Feature: a oneof of bytes_list, float_list, int64_list, or     *)
(* nothing set.                                                            *)
(***************************************************************************)
Int64List(v) == [kind |-> "int64_list", value |-> v]

FloatList(v) == [kind |-> "float_list", value |-> [i \in DOMAIN v |-> Float32(v[i])]]

BytesList(v) == [kind |-> "bytes_list", value |-> v]

EmptyFeature == [kind |-> "empty"]

IsFeature(x) == "kind" \in DOMAIN x

(***************************************************************************)
(* numpy / TensorFlow conversions used by convert_to_feature.              *)
(***************************************************************************)
IsInt(x) == x.t \in {"int", "np.int64"}

IsFloat(x) == x.t \in {"float", "np.float32"}

IsNumber(x) == IsInt(x) \/ IsFloat(x)

NumberOf(x) == IF IsInt(x) THEN FromInt(x.i) ELSE x.f

IsIntDtype(dtype) == dtype \in {"int32", "int64"}

\* The elements np.asarray(value).reshape(-1) visits.
ItemsOf(value) ==
  IF value.t = "list" THEN value.items
  ELSE IF value.t = "ndarray"
    THEN [i \in DOMAIN value.data |->
            IF IsIntDtype(value.dtype) THEN PyInt(value.data[i])
            ELSE PyFloat(value.data[i])]
  ELSE <<value>>

\* One element under astype(np.int64): integers are kept, floats are truncated,
\* None is a TypeError and (non-numeric) text or any other object a ValueError.
ToInt64(x) ==
  IF IsInt(x) THEN Ok(x.i)
  ELSE IF IsFloat(x) THEN Ok(Trunc(x.f))
  ELSE IF x.t = "NoneType" THEN Raise("TypeError")
  ELSE Raise("ValueError")

\* One element under astype(np.float32).
ToFloat(x) ==
  IF IsNumber(x) THEN Ok(NumberOf(x))
  ELSE IF x.t = "NoneType" THEN Raise("TypeError")
  ELSE Raise("ValueError")

\* Elementwise conversion; the first element that cannot be converted raises.
FirstBad(rs) ==
  IF \E i \in DOMAIN rs : rs[i].raised # "none"
    THEN CHOOSE i \in DOMAIN rs :
           /\ rs[i].raised # "none"
           /\ \A j \in DOMAIN rs : rs[j].raised # "none" => i <= j
    ELSE 0

Collect(rs) ==
  IF FirstBad(rs) # 0 THEN Raise(rs[FirstBad(rs)].raised)
  ELSE Ok([i \in DOMAIN rs |-> rs[i].value])

AsTypeInt64(value) ==
  Collect([i \in DOMAIN ItemsOf(value) |-> ToInt64(ItemsOf(value)[i])])

AsTypeFloat32(value) ==
  Collect([i \in DOMAIN ItemsOf(value) |-> ToFloat(ItemsOf(value)[i])])

AllNumbers(items) == \A i \in DOMAIN items : IsNumber(items[i])

TensorDtype(items) ==
  IF items # <<>> /\ (\A i \in DOMAIN items : IsInt(items[i])) THEN "int32"
  ELSE "float32"

TensorData(items) ==
  [i \in DOMAIN items |->
     IF TensorDtype(items) = "int32" THEN items[i].i ELSE Float32(NumberOf(items[i]))]

RECURSIVE Flatten(_)
Flatten(rows) ==
  IF rows = <<>> THEN <<>> ELSE Head(rows).items \o Flatten(Tail(rows))

\* tf.convert_to_tensor followed by tf.io.serialize_tensor: an ndarray keeps
\* its element type and shape; Python numbers become int32 / float32; a list
\* must be rectangular (lists nested deeper than two levels are not modelled).
ToTensorBlob(value) ==
  IF value.t = "ndarray" THEN Ok(TensorBlob(value.dtype, value.shape, value.data))
  ELSE IF IsNumber(value)
    THEN Ok(TensorBlob(TensorDtype(<<value>>), <<>>, TensorData(<<value>>)))
  ELSE IF value.t = "list" /\ AllNumbers(value.items)
    THEN Ok(TensorBlob(TensorDtype(value.items), <<Len(value.items)>>,
                       TensorData(value.items)))
  ELSE IF /\ value.t = "list"
          /\ \A i \in DOMAIN value.items :
               /\ value.items[i].t = "list"
               /\ AllNumbers(value.items[i].items)
               /\ Len(value.items[i].items) = Len(value.items[1].items)
    THEN Ok(TensorBlob(TensorDtype(Flatten(value.items)),
                       <<Len(value.items), Len(value.items[1].items)>>,
                       TensorData(Flatten(value.items))))
  ELSE Raise("ValueError")

(***************************************************************************)
(* convert_to_feature                                                      *)
(***************************************************************************)
NoTag == "None"

\* The value_type names the dispatch of lines 102-141 knows.
SupportedTags ==
  <<"int64", "int64_list", "float", "float_list", "bytes", "bytes_list",
    "str", "2d_list", "ndarray", "none">>

IsSupportedTag(tg) == \E k \in DOMAIN SupportedTags : SupportedTags[k] = tg

\* Lines 72-97: the type named by the element inspected.
ElementType(element) ==
  IF element.t = "bytes" THEN Ok("bytes")
  ELSE IF IsInt(element) THEN Ok("int64")
  ELSE IF IsFloat(element) THEN Ok("float")
  ELSE IF element.t = "str" THEN Ok("str")
  ELSE IF element.t = "list" THEN Ok("2d")
  ELSE IF element.t = "ndarray" THEN Ok("ndarray")
  ELSE IF element.t = "NoneType" THEN Ok("none")
  ELSE Raise("ValueError")

\* A classification that forgets the "_list" suffix of line 100.
InferTypeNoSuffix(value) ==
  IF value.t = "list" /\ value.items = <<>> THEN Raise("IndexError")
  ELSE ElementType(IF value.t = "list" THEN value.items[1] ELSE value)

\* Lines 70-100: value[0] of an empty list is an IndexError.
InferType(value) ==
  IF value.t = "list" /\ value.items = <<>> THEN Raise("IndexError")
  ELSE LET element == IF value.t = "list" THEN value.items[1] ELSE value
           et == ElementType(element)
       IN  IF et.raised # "none" THEN et
           ELSE IF value.t = "list" THEN Ok(et.value \o "_list")
           ELSE et

\* A final else that stores an empty field instead of raising.
UnknownValueTypeAsEmpty(value_type) == Ok(EmptyFeature)

\* Lines 143-145: no branch of the dispatch matched.
UnknownValueType(value_type) == Raise("ValueError")

\* Lines 102-145: the field built for a value_type.
EncodeAs(value, value_type) ==
  IF value_type = "int64"
    THEN IF IsInt(value) THEN Ok(Int64List(<<value.i>>)) ELSE Raise("TypeError")
  ELSE IF value_type = "int64_list"
    THEN LET a == AsTypeInt64(value)
         IN  IF a.raised # "none" THEN a ELSE Ok(Int64List(a.value))
  ELSE IF value_type = "float"
    THEN IF IsNumber(value) THEN Ok(FloatList(<<NumberOf(value)>>))
         ELSE Raise("TypeError")
  ELSE IF value_type = "float_list"
    THEN LET a == AsTypeFloat32(value)
         IN  IF a.raised # "none" THEN a ELSE Ok(FloatList(a.value))
  ELSE IF value_type = "bytes"
    THEN IF value.t = "bytes" THEN Ok(BytesList(<<value.b>>)) ELSE Raise("TypeError")
  ELSE IF value_type = "bytes_list"
    THEN IF value.t = "list" /\ \A i \in DOMAIN value.items : value.items[i].t = "bytes"
           THEN Ok(BytesList([i \in DOMAIN value.items |-> value.items[i].b]))
           ELSE Raise("TypeError")
  ELSE IF value_type = "str"
    THEN IF value.t = "str" THEN Ok(BytesList(<<Utf8(value.s)>>))
         ELSE Raise("AttributeError")
  ELSE IF value_type \in {"2d_list", "ndarray"}
    THEN LET b == ToTensorBlob(value)
         IN  IF b.raised # "none" THEN b ELSE Ok(BytesList(<<b.value>>))
  ELSE IF value_type = "none" THEN Ok(EmptyFeature)
  ELSE UnknownValueType(value_type)

convert_to_feature(value, value_type) ==
  IF value_type = NoTag
    THEN LET ty == InferType(value)
         IN  IF ty.raised # "none" THEN ty ELSE EncodeAs(value, ty.value)
    ELSE EncodeAs(value, value_type)

(***************************************************************************)
(* Text: a Python str read from a file is a sequence of one-character      *)
(* strings.                                                                *)
(***************************************************************************)
Digits == <<"0", "1", "2", "3", "4", "5", "6", "7", "8", "9">>

IsDigit(c) == \E k \in DOMAIN Digits : Digits[k] = c

DigitValue(c) == (CHOOSE k \in DOMAIN Digits : Digits[k] = c) - 1

IsSpace(c) == c \in {" ", "\n", "\t", "\r"}

\* s[a:] and s[:b] with 0-based Python bounds.
DropChars(s, a) == SubSeq(s, a + 1, Len(s))

TakeChars(s, b) == SubSeq(s, 1, IF b < Len(s) THEN b ELSE Len(s))

\* str.split(sep) for a one-character separator: every occurrence splits, so
\* two adjacent separators yield an empty token.
RECURSIVE Split(_, _)
Split(s, sep) ==
  IF \E i \in DOMAIN s : s[i] = sep
    THEN LET i == CHOOSE k \in DOMAIN s :
                    s[k] = sep /\ \A j \in 1..(k - 1) : s[j] # sep
         IN  <<SubSeq(s, 1, i - 1)>> \o Split(SubSeq(s, i + 1, Len(s)), sep)
    ELSE <<s>>

\* str.strip(), which int() and float() apply to their argument.
RECURSIVE Strip(_)
Strip(s) ==
  IF s = <<>> THEN s
  ELSE IF IsSpace(s[1]) THEN Strip(Tail(s))
  ELSE IF IsSpace(s[Len(s)]) THEN Strip(SubSeq(s, 1, Len(s) - 1))
  ELSE s

AllDigits(s) == \A i \in DOMAIN s : IsDigit(s[i])

RECURSIVE DigitsValue(_)
DigitsValue(s) ==
  IF s = <<>> THEN 0 ELSE 10 * DigitsValue(SubSeq(s, 1, Len(s) - 1)) + DigitValue(s[Len(s)])

Unsigned(s) == IF s # <<>> /\ s[1] \in {"+", "-"} THEN Tail(s) ELSE s

SignOf(s) == IF s # <<>> /\ s[1] = "-" THEN -1 ELSE 1

\* int(token): optional sign and decimal digits, surrounding whitespace ignored.
PyIntOf(token) ==
  LET u == Unsigned(Strip(token))
  IN  IF u # <<>> /\ AllDigits(u) THEN Ok(SignOf(Strip(token)) * DigitsValue(u))
      ELSE Raise("ValueError")

\* float(token): optional sign, decimal digits with at most one point and at
\* least one digit (exponents, inf and nan are not modelled).
PyFloatOf(token) ==
  LET u == Unsigned(Strip(token))
      parts == Split(u, ".")
      whole == parts[1]
      frac == IF Len(parts) = 2 THEN parts[2] ELSE <<>>
  IN  IF /\ Len(parts) <= 2
         /\ AllDigits(whole) /\ AllDigits(frac)
         /\ Len(whole) + Len(frac) > 0
        THEN Ok(Rat(SignOf(Strip(token)) * (DigitsValue(whole) * (10 ^ Len(frac))
                                            + DigitsValue(frac)),
                    10 ^ Len(frac)))
        ELSE Raise("ValueError")

(***************************************************************************)
(* numpy.array of a list of rows.                                          *)
(***************************************************************************)
RECURSIVE Concat(_)
Concat(rows) == IF rows = <<>> THEN <<>> ELSE Head(rows) \o Concat(Tail(rows))

\* A rectangular list of rows becomes a 2-d array, the empty list a 1-d array
\* of shape (0,) and float64; rows of unequal length are rejected (numpy >=
\* 1.24; older versions build an object array that no later step accepts).
NpArray(rows, dtype) ==
  IF rows = <<>> THEN Ok(NdArray("float64", <<0>>, <<>>))
  ELSE IF \A i \in DOMAIN rows : Len(rows[i]) = Len(rows[1])
    THEN Ok(NdArray(dtype, <<Len(rows), Len(rows[1])>>, Concat(rows)))
  ELSE Raise("ValueError")

(***************************************************************************)
(* parse_obj_file                                                          *)
(***************************************************************************)
\* Lines 263-266 / 274-277: the tokens of one line converted in order; the
\* first token that does not convert raises.
VertexOf(line) ==
  LET toks == Split(DropChars(line, 2), " ")
  IN  Collect([i \in DOMAIN toks |-> PyFloatOf(toks[i])])

FaceOf(line) ==
  LET toks == Split(DropChars(line, 2), " ")
  IN  Collect([i \in DOMAIN toks |-> PyIntOf(Split(toks[i], "/")[1])])

LineId(line) == TakeChars(line, 2)

IsVertexLine(line) == LineId(line) = <<"v", " ">>

IsFaceLine(line) == LineId(line) = <<"f", " ">>

\* The lines of one kind, in file order.
RECURSIVE SelectLines(_, _)
SelectLines(lines, id) ==
  IF lines = <<>> THEN <<>>
  ELSE (IF LineId(Head(lines)) = id THEN <<Head(lines)>> ELSE <<>>)
       \o SelectLines(Tail(lines), id)

\* Lines 257-278: the loop raises at the first line whose tokens do not parse.
ParseLines(lines) ==
  LET rs == [i \in DOMAIN lines |->
               IF IsVertexLine(lines[i]) THEN VertexOf(lines[i])
               ELSE IF IsFaceLine(lines[i]) THEN FaceOf(lines[i])
               ELSE Ok(<<>>)]
      vs == SelectLines(lines, <<"v", " ">>)
      fs == SelectLines(lines, <<"f", " ">>)
  IN  IF FirstBad(rs) # 0 THEN Raise(rs[FirstBad(rs)].raised)
      ELSE Ok([vertices |-> [i \in DOMAIN vs |-> VertexOf(vs[i]).value],
               faces |-> [i \in DOMAIN fs |-> FaceOf(fs[i]).value]])

\* Lines 240-280.  A file is a record of the disk; "absent" when the path
\* names nothing.  The face array has numpy's default integer type.
parse_obj_file(file) ==
  IF file.kind = "absent" THEN Raise("FileNotFoundError")
  ELSE IF file.kind # "text" THEN Raise("UnicodeDecodeError")
  ELSE LET p == ParseLines(file.lines)
       IN  IF p.raised # "none" THEN p
           ELSE LET v == NpArray(p.value.vertices, "float64")
                    f == NpArray(p.value.faces, "int64")
                IN  IF v.raised # "none" THEN v
                    ELSE IF f.raised # "none" THEN f
                    ELSE Ok([vertices |-> v.value, faces |-> f.value])

(***************************************************************************)
(* parse_voxel_file                                                        *)
(***************************************************************************)
\* Element [i, j, k] (0-based) of a rank-3 array stored in row-major order.
At3(a, i, j, k) == a.data[(i * a.shape[2] + j) * a.shape[3] + k + 1]

\* The 0-based coordinates of an array of the given shape, in row-major order.
Coords(shape) ==
  [n \in 1..(shape[1] * shape[2] * shape[3]) |->
     <<(n - 1) \div (shape[2] * shape[3]),
       ((n - 1) \div shape[3]) % shape[2],
       (n - 1) % shape[3]>>]

\* A single quarter turn, np.rot90(m, k=1, axes=(1, 2)):
\* r[i, j, k] = m[i, k, c - 1 - j].
Rot90x1(m) ==
  LET shape == <<m.shape[1], m.shape[3], m.shape[2]>>
      cs == Coords(shape)
  IN  NdArray(m.dtype, shape,
              [n \in DOMAIN cs |-> At3(m, cs[n][1], cs[n][3], m.shape[3] - 1 - cs[n][2])])

\* np.rot90(m, k=3, axes=(1, 2)) = flip(transpose(m, (0, 2, 1)), 2):
\* r[i, j, k] = m[i, b - 1 - k, j], where m has shape (a, b, c) and r (a, c, b).
Rot90x3(m) ==
  LET shape == <<m.shape[1], m.shape[3], m.shape[2]>>
      cs == Coords(shape)
  IN  NdArray(m.dtype, shape,
              [n \in DOMAIN cs |-> At3(m, cs[n][1], m.shape[2] - 1 - cs[n][3], cs[n][2])])

RECURSIVE SelectOccupied(_, _)
SelectOccupied(cs, data) ==
  IF cs = <<>> THEN <<>>
  ELSE (IF Head(data) > 0 THEN <<Head(cs)>> ELSE <<>>)
       \o SelectOccupied(Tail(cs), Tail(data))

\* np.argwhere(voxel > 0): one row per occupied cell, in row-major order.
ArgWhere(voxel) ==
  LET rows == SelectOccupied(Coords(voxel.shape), voxel.data)
  IN  NdArray("int64", <<Len(rows), 3>>, Concat(rows))

\* Lines 282-299.  loadmat raises on a missing or non-.mat file, the lookup on
\* a missing key, rot90 on an array with fewer than three axes (arrays of more
\* than three axes are not modelled).
parse_voxel_file(file) ==
  IF file.kind = "absent" THEN Raise("FileNotFoundError")
  ELSE IF file.kind # "mat" THEN Raise("ValueError")
  ELSE IF "voxel" \notin DOMAIN file.vars THEN Raise("KeyError")
  ELSE IF Len(file.vars["voxel"].shape) < 3 THEN Raise("ValueError")
  ELSE LET voxel == Rot90x3(file.vars["voxel"])
       IN  Ok([voxel_indices |-> ArgWhere(voxel),
               voxel_shape |-> PyList([i \in DOMAIN voxel.shape |-> PyInt(voxel.shape[i])])])

(***************************************************************************)
(* The dataset on disk.  A file has its raw bytes and, where it is one, its *)
(* text lines or its .mat variables.                                       *)
(***************************************************************************)
Absent == [kind |-> "absent"]

FileBytes(raw) == [kind |-> "bytes", raw |-> raw]

FileText(raw, lines) == [kind |-> "text", raw |-> raw, lines |-> lines]

FileMat(raw, matvars) == [kind |-> "mat", raw |-> raw, vars |-> matvars]

ChairObj ==
  <<<<"#", " ", "c", "h", "a", "i", "r", "\n">>,
    <<"v", " ", "0", ".", "5", " ", "-", "1", " ", "2", "\n">>,
    <<"v", "n", " ", "0", " ", "0", " ", "1", "\n">>,
    <<"v", " ", "0", " ", "0", ".", "2", "5", " ", "-", "3", "\n">>,
    <<"f", " ", "1", "/", "1", " ", "2", "/", "2", " ", "1", "/", "3", "\n">>,
    <<"f", " ", "2", "/", "/", "1", " ", "1", "/", "/", "2", " ", "2", "/", "/", "2", "\n">>>>

BadObj ==
  <<<<"v", " ", "1", " ", "x", " ", "2", "\n">>,
    <<"f", " ", "1", " ", "2", " ", "3", "\n">>>>

\* A 1 x 2 x 3 occupancy grid with three occupied cells.
ChairVoxel == NdArray("uint8", <<1, 2, 3>>, <<1, 0, 0, 0, 1, 1>>)

PlaneVoxel == NdArray("uint8", <<2, 2>>, <<1, 0, 0, 1>>)

Pix3dDir == "pix3d"

Disk ==
  ("pix3d/img/chair/0001.jpg" :> FileBytes("jpg-0001")) @@
  ("pix3d/img/bed/0002.png" :> FileBytes("png-0002")) @@
  ("pix3d/mask/chair/0001.png" :> FileBytes("mask-0001")) @@
  ("pix3d/mask/bed/0002.png" :> FileBytes("mask-0002")) @@
  ("pix3d/model/chair/model.obj" :> FileText("obj-chair", ChairObj)) @@
  ("pix3d/model/bed/bad.obj" :> FileText("obj-bad", BadObj)) @@
  ("pix3d/model/chair/voxel.mat" :> FileMat("mat-chair", [voxel |-> ChairVoxel])) @@
  ("pix3d/model/bed/plane.mat" :> FileMat("mat-plane", [voxel |-> PlaneVoxel])) @@
  ("pix3d/model/bed/other.mat" :> FileMat("mat-other", [grid |-> ChairVoxel])) @@
  ("pix3d/model/bed/truncated.mat" :> FileBytes("mat-truncated"))

\* os.path.join(pix3d_dir, name)
PathJoin(dir, name) == dir \o "/" \o name

FileAt(path) == IF path \in DOMAIN Disk THEN Disk[path] ELSE Absent

\* tf.io.gfile.GFile(path, 'rb').read()
GFileRead(path) ==
  IF FileAt(path).kind = "absent" THEN Raise("NotFoundError") ELSE Ok(FileAt(path).raw)

(***************************************************************************)
(* generate_annotations                                                    *)
(***************************************************************************)
CopiedKeys ==
  {"img", "category", "img_size", "2d_keypoints", "mask", "img_source", "model",
   "model_raw", "model_source", "3d_keypoints", "voxel", "rot_mat", "trans_mat",
   "focal_length", "cam_position", "inplane_rotation", "truncated", "occluded",
   "slightly_occluded", "bbox"}

\* An annotation whose image_id counts the records from 1.
AnnotationOfOneBased(id, info, pix3d_dir) ==
  [k \in CopiedKeys \cup {"image_id", "pix3d_dir"} |->
     IF k = "image_id" THEN id + 1
     ELSE IF k = "pix3d_dir" THEN pix3d_dir
     ELSE info[k]]

\* Lines 326-333: the annotation built from the id-th record (0-based id).
AnnotationOf(id, info, pix3d_dir) ==
  [k \in CopiedKeys \cup {"image_id", "pix3d_dir"} |->
     IF k = "image_id" THEN id
     ELSE IF k = "pix3d_dir" THEN pix3d_dir
     ELSE info[k]]

\* Lines 301-345: a record that lacks a copied key raises KeyError.
generate_annotations(annotation_dict, pix3d_dir) ==
  IF \E i \in DOMAIN annotation_dict : ~(CopiedKeys \subseteq DOMAIN annotation_dict[i])
    THEN Raise("KeyError")
    ELSE Ok([i \in DOMAIN annotation_dict |->
               AnnotationOf(i - 1, annotation_dict[i], pix3d_dir)])

(***************************************************************************)
(* create_tf_example                                                       *)
(***************************************************************************)
\* Python's true division of two numbers: always a float.
PyTrueDiv(a, b) ==
  IF NumberOf(b)[1] = 0 THEN Raise("ZeroDivisionError")
  ELSE Ok(PyFloat(RDiv(NumberOf(a), NumberOf(b))))

PyMul(a, b) == PyFloat(RMul(NumberOf(a), NumberOf(b)))

\* Lines 176-179; the text is matched against the names on disk.
ContainsJpg(name) ==
  name \in {"img/chair/0001.jpg", "img/chair/none.jpg"}

ImgFormat(name) == IF ContainsJpg(name) THEN "jpg" ELSE "png"

\* tfrecord_lib.image_info_to_feature_dict: the image-metadata fields.
image_info_to_feature_dict(height, width, filename, image_id, encoded_str, encoded_format) ==
  ("image/height" :> Int64List(<<height.i>>)) @@
  ("image/width" :> Int64List(<<width.i>>)) @@
  ("image/filename" :> BytesList(<<Utf8(filename)>>)) @@
  ("image/source_id" :> BytesList(<<Utf8(ToString(image_id))>>)) @@
  ("image/encoded" :> BytesList(<<encoded_str>>)) @@
  ("image/format" :> BytesList(<<Utf8(encoded_format)>>))

\* The state of one call: the exception raised so far, if any, and feature_dict.
Going(fd) == [raised |-> "none", feature_dict |-> fd]

Failed(e, fd) == [raised |-> e, feature_dict |-> fd]

\* feature_dict.update({keys[i]: encs[i]}): the dict literal is evaluated
\* first, so the first encoding that raises leaves feature_dict as it was.
Update(st, keys, encs) ==
  IF FirstBad(encs) # 0 THEN Failed(encs[FirstBad(encs)].raised, st.feature_dict)
  ELSE Going([k \in DOMAIN st.feature_dict \cup {keys[i] : i \in DOMAIN keys} |->
                IF \E i \in DOMAIN keys : keys[i] = k
                  THEN encs[CHOOSE i \in DOMAIN keys : keys[i] = k].value
                  ELSE st.feature_dict[k]])

\* Lines 173-183: the image bytes and the image-metadata fields.
ImageFields(image, r) ==
  IF r.raised # "none" THEN Failed(r.raised, <<>>)
  ELSE Going(image_info_to_feature_dict(
               image["img_size"].items[1], image["img_size"].items[2],
               image["img"], image["image_id"], r.value, ImgFormat(image["img"])))

ImageStage(image) ==
  ImageFields(image, GFileRead(PathJoin(image["pix3d_dir"], image["img"])))

\* Lines 186-189: the mask bytes.
MaskFields(st, r) ==
  IF r.raised # "none" THEN Failed(r.raised, st.feature_dict)
  ELSE Update(st, <<"image/object/mask">>,
              <<convert_to_feature(PyBytes(r.value), NoTag)>>)

MaskStage(image, st) ==
  MaskFields(st, GFileRead(PathJoin(image["pix3d_dir"], image["mask"])))

\* Lines 192-196: the mesh.
MeshFields(st, r) ==
  IF r.raised # "none" THEN Failed(r.raised, st.feature_dict)
  ELSE Update(st, <<"model/vertices", "model/faces">>,
              <<convert_to_feature(r.value.vertices, NoTag),
                convert_to_feature(r.value.faces, NoTag)>>)

MeshStage(image, st) ==
  MeshFields(st, parse_obj_file(FileAt(PathJoin(image["pix3d_dir"], image["model"]))))

\* Lines 198-202: the voxels.
VoxelFields(st, r) ==
  IF r.raised # "none" THEN Failed(r.raised, st.feature_dict)
  ELSE Update(st, <<"model/voxel_indices", "model/voxel_shape">>,
              <<convert_to_feature(r.value.voxel_indices, NoTag),
                convert_to_feature(r.value.voxel_shape, NoTag)>>)

VoxelStage(image, st) ==
  VoxelFields(st, parse_voxel_file(FileAt(PathJoin(image["pix3d_dir"], image["voxel"]))))

\* An intrinsic vector whose second and third entries are exchanged.
IntrinsicMatSwapped(focal_length, img_height, img_width) ==
  PyList(<<PyMul(focal_length, PyTrueDiv(img_width, PyInt(32)).value),
           PyTrueDiv(img_height, PyInt(2)).value,
           PyTrueDiv(img_width, PyInt(2)).value>>)

\* Lines 207-210.
IntrinsicMat(focal_length, img_height, img_width) ==
  PyList(<<PyMul(focal_length, PyTrueDiv(img_width, PyInt(32)).value),
           PyTrueDiv(img_width, PyInt(2)).value,
           PyTrueDiv(img_height, PyInt(2)).value>>)

\* Lines 205-215: the camera.
CameraStage(image, st) ==
  Update(st, <<"camera/rot_mat", "camera/trans_mat", "camera/intrinstic_mat">>,
         <<convert_to_feature(image["rot_mat"], NoTag),
           convert_to_feature(image["trans_mat"], NoTag),
           convert_to_feature(
             IntrinsicMat(image["focal_length"], image["img_size"].items[1],
                          image["img_size"].items[2]), NoTag)>>)

\* A normalisation that divides every coordinate by the width.
NormalizeBoxByWidth(bbox, img_height, img_width) ==
  <<PyTrueDiv(bbox.items[1], img_width), PyTrueDiv(bbox.items[2], img_width),
    PyTrueDiv(bbox.items[3], img_width), PyTrueDiv(bbox.items[4], img_width)>>

\* Lines 218-222: x coordinates over the width, y coordinates over the height.
NormalizeBox(bbox, img_height, img_width) ==
  <<PyTrueDiv(bbox.items[1], img_width), PyTrueDiv(bbox.items[2], img_height),
    PyTrueDiv(bbox.items[3], img_width), PyTrueDiv(bbox.items[4], img_height)>>

\* Line 232: the label is the annotation's category itself.
ClassLabel(image) == Ok(image["category"])

\* Lines 227-233.
BoxFields(image, st, box) ==
  IF FirstBad(box) # 0 THEN Failed(box[FirstBad(box)].raised, st.feature_dict)
  ELSE Update(st,
              <<"image/object/bbox/xmin", "image/object/bbox/ymin",
                "image/object/bbox/xmax", "image/object/bbox/ymax",
                "image/object/class/label", "image/object/is_crowd">>,
              <<convert_to_feature(PyList(<<box[1].value>>), NoTag),
                convert_to_feature(PyList(<<box[2].value>>), NoTag),
                convert_to_feature(PyList(<<box[3].value>>), NoTag),
                convert_to_feature(PyList(<<box[4].value>>), NoTag),
                ClassLabel(image),
                convert_to_feature(PyList(<<PyInt(0)>>), NoTag)>>)

\* Lines 218-233: the bounding box, label and crowd flag.  Unpacking a box
\* that does not hold four values is a ValueError.
BoxStage(image, st) ==
  IF Len(image["bbox"].items) # 4 THEN Failed("ValueError", st.feature_dict)
  ELSE BoxFields(image, st,
                 NormalizeBox(image["bbox"], image["img_size"].items[1],
                              image["img_size"].items[2]))

\* tf.train.Example(features=tf.train.Features(feature=feature_dict)): every
\* value of the map must be a tf.train.Feature, anything else is a TypeError.
Example(feature_dict) ==
  IF \A k \in DOMAIN feature_dict : IsFeature(feature_dict[k])
    THEN Ok([features |-> feature_dict])
    ELSE Raise("TypeError")

\* Lines 235-238: the Example is built and returned with a skip count of 0.
Returning(st, ex) ==
  IF ex.raised # "none" THEN Failed(ex.raised, st.feature_dict)
  ELSE [raised |-> "none", feature_dict |-> st.feature_dict, value |-> <<ex.value, 0>>]

ExampleStage(st) == Returning(st, Example(st.feature_dict))

NumStages == 7

\* The n-th block of statements of create_tf_example.
Stage(n, image, st) ==
  IF n = 1 THEN ImageStage(image)
  ELSE IF n = 2 THEN MaskStage(image, st)
  ELSE IF n = 3 THEN MeshStage(image, st)
  ELSE IF n = 4 THEN VoxelStage(image, st)
  ELSE IF n = 5 THEN CameraStage(image, st)
  ELSE IF n = 6 THEN BoxStage(image, st)
  ELSE ExampleStage(st)

\* The blocks run in order; an exception ends the call.
RECURSIVE RunStages(_, _, _)
RunStages(n, image, st) ==
  IF n > NumStages \/ st.raised # "none" THEN st
  ELSE RunStages(n + 1, image, Stage(n, image, st))

\* Lines 147-238: the outcome of one call: what was raised, the feature_dict
\* built so far and, on return, the pair (example, 0).
create_tf_example(image) == RunStages(1, image, Going(<<>>))

(***************************************************************************)
(* Records of the annotation index.                                        *)
(***************************************************************************)
RotMat ==
  PyList(<<PyList(<<PyFloat(<<1, 2>>), PyFloat(<<0, 1>>), PyFloat(<<-1, 2>>)>>),
           PyList(<<PyFloat(<<1, 4>>), PyFloat(<<1, 1>>), PyFloat(<<1, 4>>)>>),
           PyList(<<PyFloat(<<1, 2>>), PyFloat(<<-1, 4>>), PyFloat(<<3, 4>>)>>)>>)

TransMat == PyList(<<PyFloat(<<-1, 8>>), PyFloat(<<1, 16>>), PyFloat(<<9, 8>>)>>)

IndexRecord(img, category, img_size, mask, model, voxel, focal_length, bbox) ==
  [k \in CopiedKeys |->
     IF k = "img" THEN img
     ELSE IF k = "category" THEN category
     ELSE IF k = "img_size" THEN PyList(<<PyInt(img_size[1]), PyInt(img_size[2])>>)
     ELSE IF k = "mask" THEN mask
     ELSE IF k = "model" THEN model
     ELSE IF k = "voxel" THEN voxel
     ELSE IF k = "rot_mat" THEN RotMat
     ELSE IF k = "trans_mat" THEN TransMat
     ELSE IF k = "focal_length" THEN focal_length
     ELSE IF k = "bbox" THEN PyList([i \in DOMAIN bbox |-> PyInt(bbox[i])])
     ELSE PyNone]

\* A record of the index with one key deleted.
Without(info, key) == [k \in DOMAIN info \ {key} |-> info[k]]

ChairRecord ==
  IndexRecord("img/chair/0001.jpg", PyStr("chair"), <<2016, 1512>>,
              "mask/chair/0001.png", "model/chair/model.obj",
              "model/chair/voxel.mat", PyFloat(<<36, 1>>), <<378, 504, 756, 1512>>)

\* Records whose referenced files are present, absent or malformed.
Profiles ==
  <<ChairRecord,
    [ChairRecord EXCEPT !["img"] = "img/chair/none.jpg"],
    [ChairRecord EXCEPT !["model"] = "model/chair/none.obj"],
    [ChairRecord EXCEPT !["model"] = "model/bed/bad.obj", !["category"] = PyInt(3)],
    [ChairRecord EXCEPT !["voxel"] = "model/bed/other.mat", !["img"] = "img/bed/0002.png"],
    Without(ChairRecord, "voxel")>>

MaxAnn == 3

MaxShards == 2

(***************************************************************************)
(* Specification Spec: one run of main.                                    *)
(***************************************************************************)
FnIdle == arg = NoCall /\ ret = NoCall

Init ==
  /\ pc = "start"
  /\ out_dir \in {"exists", "absent", "uncreatable"}
  /\ \/ index_file \in {[state |-> "missing"], [state |-> "malformed"]}
     \/ \E n \in 0..MaxAnn : \E ks \in [1..n -> DOMAIN Profiles] :
          index_file = [state |-> "ok", records |-> [i \in 1..n |-> Profiles[ks[i]]]]
  /\ num_shards \in 1..MaxShards
  /\ annotations = <<>>
  /\ writers = <<>>
  /\ idx = 0
  /\ num_skipped = 0
  /\ frame = NoCall
  /\ FnIdle

\* A main that goes on when the directory cannot be created.
MakeDirsIgnoringFailure ==
  /\ pc = "start"
  /\ pc' = "dir_ready"
  /\ out_dir' = IF out_dir = "absent" THEN "exists" ELSE out_dir
  /\ UNCHANGED <<index_file, num_shards, annotations, writers, idx, num_skipped,
                 frame, arg, ret>>

\* Lines 377-379: the output directory is created unless it exists; a failure
\* of makedirs ends the run.
MakeDirs ==
  /\ pc = "start"
  /\ IF out_dir = "uncreatable"
       THEN pc' = "aborted" /\ out_dir' = out_dir
       ELSE pc' = "dir_ready" /\ out_dir' = "exists"
  /\ UNCHANGED <<index_file, num_shards, annotations, writers, idx, num_skipped,
                 frame, arg, ret>>

\* Line 363: json.load(open(...)) raises when the index is missing or is not JSON.
LoadIndex ==
  /\ pc = "dir_ready"
  /\ pc' = IF index_file.state = "ok" THEN "loaded" ELSE "aborted"
  /\ UNCHANGED <<out_dir, index_file, num_shards, annotations, writers, idx,
                 num_skipped, frame, arg, ret>>

\* A KeyError of generate_annotations ends the run.
Generated(r) ==
  IF r.raised # "none"
    THEN pc' = "aborted" /\ annotations' = annotations
    ELSE pc' = "generated" /\ annotations' = r.value

\* Lines 365-366.
GenerateAnnotations ==
  /\ pc = "loaded"
  /\ Generated(generate_annotations(index_file.records, Pix3dDir))
  /\ UNCHANGED <<out_dir, index_file, num_shards, writers, idx, num_skipped,
                 frame, arg, ret>>

(***************************************************************************)
(* tfrecord_lib.write_tf_record_dataset, the sharded writer.               *)
(***************************************************************************)
\* tf_example.SerializeToString()
Serialize(example) == [proto |-> "Example", features |-> example.features]

\* A writer that does not count a failed assembly.
SkipCountIgnoringFailure(total, r) ==
  IF r.raised # "none" THEN total ELSE total + r.value[2]

\* The skip count after one annotation: a failed assembly counts one, a
\* returned one adds the count it returned.
SkipCountAfter(total, r) ==
  IF r.raised # "none" THEN total + 1 ELSE total + r.value[2]

\* The run goes on after every annotation, assembled or not.
PcAfter(r) == "writing"

\* A writer that writes whatever was assembled before the failure.
ShardsAfterWritingPartial(ws, i, r) ==
  [ws EXCEPT ![(i % Len(ws)) + 1] = Append(@, [proto |-> "Example", features |-> r.feature_dict])]

\* The shard files after annotation i (0-based): an assembled Example is
\* appended to shard i mod N, a failed one writes nothing.
ShardsAfter(ws, i, r) ==
  IF r.raised # "none" THEN ws
  ELSE [ws EXCEPT ![(i % Len(ws)) + 1] = Append(@, Serialize(r.value[1]))]

\* One writer per shard file is opened before the first annotation is assembled.
OpenShards ==
  /\ pc = "generated"
  /\ writers' = [i \in 1..num_shards |-> <<>>]
  /\ pc' = "writing"
  /\ UNCHANGED <<out_dir, index_file, num_shards, annotations, idx, num_skipped,
                 frame, arg, ret>>

\* What the writer does with the outcome r of one call.
Handled(r) ==
  /\ frame' = r
  /\ num_skipped' = SkipCountAfter(num_skipped, r)
  /\ writers' = ShardsAfter(writers, idx, r)
  /\ pc' = PcAfter(r)

\* The next annotation goes through create_tf_example (line 369).
ProcessNext ==
  /\ pc = "writing"
  /\ idx < Len(annotations)
  /\ Handled(create_tf_example(annotations[idx + 1]))
  /\ idx' = idx + 1
  /\ UNCHANGED <<out_dir, index_file, num_shards, annotations, arg, ret>>

\* Lines 368-372: the writer returns the skip count, which is logged.
Finish ==
  /\ pc = "writing"
  /\ idx = Len(annotations)
  /\ pc' = "done"
  /\ UNCHANGED <<out_dir, index_file, num_shards, annotations, writers, idx,
                 num_skipped, frame, arg, ret>>

Next ==
  \/ MakeDirs
  \/ LoadIndex
  \/ GenerateAnnotations
  \/ OpenShards
  \/ ProcessNext
  \/ Finish

Spec == Init /\ [][Next]_vars

(***************************************************************************)
(* Specification EncSpec: convert_to_feature applied to one input.         *)
(***************************************************************************)
UnsupportedTags == <<"2d", "str_list", "none_list", "ndarray_list", "int32", "">>

\* Elements a list may hold.
Atoms ==
  <<PyBytes("a"), PyInt(2), PyFloat(<<5, 2>>), PyStr("x"), PyNone,
    NdArray("float64", <<2>>, << <<1, 2>>, <<3, 1>> >>),
    PyList(<<PyInt(1), PyInt(2)>>), PyTuple(<<>>), PyInt(-7), PyFloat(<<-7, 4>>),
    PyBytes("b")>>

\* Values that are not lists.
Scalars ==
  <<PyBytes("png"), PyInt(3), PyInt(0), [t |-> "np.int64", i |-> 7],
    PyFloat(<<3, 2>>), PyFloat(<<1, 3>>), [t |-> "np.float32", f |-> <<1, 4>>],
    PyStr("bed"), PyStr(""), PyNone, PyTuple(<<PyInt(1)>>), [t |-> "dict"],
    NdArray("float64", <<2, 3>>,
            << <<1, 2>>, <<0, 1>>, <<-1, 1>>, <<1, 4>>, <<2, 1>>, <<3, 1>> >>),
    NdArray("int64", <<1, 3>>, <<1, 2, 3>>),
    NdArray("int64", <<0>>, <<>>)>>

MaxListLen == 2

RECURSIVE ListsOfLen(_)
ListsOfLen(n) ==
  IF n = 0 THEN {<<>>}
  ELSE {Append(ks, k) : ks \in ListsOfLen(n - 1), k \in DOMAIN Atoms}

\* A list given by the indices of its elements in Atoms.
ListOf(ks) == PyList([i \in DOMAIN ks |-> Atoms[ks[i]]])

\* A list of lists: rectangular, ragged, or with an empty row.
NestedLists ==
  <<PyList(<<PyList(<<PyFloat(<<1, 2>>), PyFloat(<<1, 3>>)>>),
             PyList(<<PyFloat(<<0, 1>>), PyFloat(<<2, 1>>)>>)>>),
    PyList(<<PyList(<<PyInt(1), PyInt(2), PyInt(3)>>)>>),
    PyList(<<PyList(<<PyInt(1), PyInt(2)>>), PyList(<<PyInt(3)>>)>>),
    PyList(<<PyList(<<>>)>>)>>

\* An explicit tag is either unsupported, or the tag inference would have
\* chosen, or a numeric tag forced on a number or a flat list of numbers.
TagFor(v, tg) ==
  \/ tg = NoTag
  \/ \E k \in DOMAIN UnsupportedTags : tg = UnsupportedTags[k]
  \/ /\ IsSupportedTag(tg)
     /\ \/ InferType(v) = Ok(tg)
        \/ tg \in {"float", "ndarray"} /\ IsNumber(v)
        \/ /\ tg \in {"float_list", "int64_list", "ndarray"}
           /\ v.t = "list"
           /\ AllNumbers(v.items)

RunIdle ==
  /\ out_dir = "exists"
  /\ index_file = [state |-> "missing"]
  /\ num_shards = 1
  /\ annotations = <<>>
  /\ writers = <<>>
  /\ idx = 0
  /\ num_skipped = 0
  /\ frame = NoCall

EncInputOf(v, tg) == [value |-> v, value_type |-> tg]

EncInit ==
  /\ pc = "enc_call"
  /\ RunIdle
  /\ ret = NoCall
  /\ \/ \E k \in DOMAIN Scalars : \E tg \in {NoTag} \cup
             {UnsupportedTags[j] : j \in DOMAIN UnsupportedTags} \cup
             {SupportedTags[j] : j \in DOMAIN SupportedTags} :
          /\ TagFor(Scalars[k], tg)
          /\ arg = EncInputOf(Scalars[k], tg)
     \/ \E k \in DOMAIN NestedLists : \E tg \in {NoTag} \cup
             {UnsupportedTags[j] : j \in DOMAIN UnsupportedTags} \cup
             {SupportedTags[j] : j \in DOMAIN SupportedTags} :
          /\ TagFor(NestedLists[k], tg)
          /\ arg = EncInputOf(NestedLists[k], tg)
     \/ \E n \in 0..MaxListLen : \E ks \in ListsOfLen(n) : \E tg \in {NoTag} \cup
             {UnsupportedTags[j] : j \in DOMAIN UnsupportedTags} \cup
             {SupportedTags[j] : j \in DOMAIN SupportedTags} :
          /\ TagFor(ListOf(ks), tg)
          /\ arg = EncInputOf(ListOf(ks), tg)

Encode ==
  /\ pc = "enc_call"
  /\ ret' = convert_to_feature(arg.value, arg.value_type)
  /\ pc' = "enc_done"
  /\ UNCHANGED <<out_dir, index_file, num_shards, annotations, writers, idx,
                 num_skipped, frame, arg>>

EncNext == Encode

EncSpec == EncInit /\ [][EncNext]_vars

(***************************************************************************)
(* Specification AsmSpec: create_tf_example applied to one annotation.     *)
(***************************************************************************)
\* Image sizes <<height, width>>.
Sizes == << <<100, 120>>, <<3, 1>>, <<1, 3>>, <<64, 7>>, <<0, 8>> >>

FocalLengths == <<PyFloat(<<36, 1>>), PyFloat(<<35, 2>>), PyFloat(<<1, 2>>), PyInt(50)>>

\* Pixel boxes: small ones, one with negative coordinates, one whose
\* coordinates need more than 23 bits, and one of three values.
Boxes ==
  << <<10, 20, 110, 220>>, <<1, 2, 3, 4>>, <<0, 0, 0, 0>>, <<-3, 5, 7, -1>>,
     <<16777217, 12582913, 12582913, 16777213>>, <<1, 2, 3>> >>

Categories == <<PyStr("chair"), PyInt(3), PyNone>>

\* The chair record with its numeric fields replaced.
NumericRecord(size, focal_length, bbox, category) ==
  IndexRecord("img/chair/0001.jpg", category, size,
              "mask/chair/0001.png", "model/chair/model.obj",
              "model/chair/voxel.mat", focal_length, bbox)

AsmInit ==
  /\ pc = "asm_call"
  /\ RunIdle
  /\ ret = NoCall
  /\ \/ \E k \in DOMAIN Profiles :
          /\ CopiedKeys \subseteq DOMAIN Profiles[k]
          /\ arg = AnnotationOf(k - 1, Profiles[k], Pix3dDir)
     \/ \E s \in DOMAIN Sizes, f \in DOMAIN FocalLengths, b \in DOMAIN Boxes,
           c \in DOMAIN Categories :
          arg = AnnotationOf(0, NumericRecord(Sizes[s], FocalLengths[f],
                                                 Boxes[b], Categories[c]), Pix3dDir)

Assemble ==
  /\ pc = "asm_call"
  /\ ret' = create_tf_example(arg)
  /\ pc' = "asm_done"
  /\ UNCHANGED <<out_dir, index_file, num_shards, annotations, writers, idx,
                 num_skipped, frame, arg>>

AsmNext == Assemble

AsmSpec == AsmInit /\ [][AsmNext]_vars

(***************************************************************************)
(* Claims about convert_to_feature (checked under EncSpec).                *)
(***************************************************************************)
EncDone == pc = "enc_done"

Untagged == arg.value_type = NoTag

HasHead(v) == v.t # "list" \/ v.items # <<>>

HeadOf(v) == IF v.t = "list" THEN v.items[1] ELSE v

Returned(kind) == ret.raised = "none" /\ ret.value.kind = kind

ReturnedList(kind, xs) == Returned(kind) /\ ret.value.value = xs

AllOfType(v, types) == \A i \in DOMAIN v.items : v.items[i].t \in types

IntTypes == {"int", "np.int64"}

FloatTypes == {"float", "np.float32"}

IsRectangular(v) ==
  \A i \in DOMAIN v.items :
    /\ v.items[i].t = "list"
    /\ AllOfType(v.items[i], IntTypes \cup FloatTypes)
    /\ Len(v.items[i].items) = Len(v.items[1].items)

OneBlob ==
  /\ Returned("bytes_list")
  /\ Len(ret.value.value) = 1
  /\ "proto" \in DOMAIN ret.value.value[1]

\* C5: with no explicit tag the value is classified by its first element if it
\* is a list, else by itself, and the field returned is the one the
\* classification names: list of bytes -> bytes_list of the items, list of
\* integers -> int64_list, list of floats -> float_list (at float32), scalar
\* bytes / integer / float -> a one-element list of that kind, text -> its UTF-8
\* bytes, nested list or array -> one serialized-tensor blob, None -> an empty
\* field; a list never yields a field of a kind other than its first element's.
C5_InferencePrecedence ==
  (EncDone /\ Untagged /\ HasHead(arg.value)) =>
    LET v == arg.value
        h == HeadOf(arg.value)
    IN  /\ (v.t = "list" /\ h.t = "bytes") =>
             /\ ret.raised = "none" => ret.value.kind = "bytes_list"
             /\ AllOfType(v, {"bytes"}) =>
                  ReturnedList("bytes_list", [i \in DOMAIN v.items |-> v.items[i].b])
        /\ (v.t = "list" /\ h.t \in IntTypes) =>
             /\ ret.raised = "none" => ret.value.kind = "int64_list"
             /\ AllOfType(v, IntTypes) =>
                  ReturnedList("int64_list", [i \in DOMAIN v.items |-> v.items[i].i])
        /\ (v.t = "list" /\ h.t \in FloatTypes) =>
             /\ ret.raised = "none" => ret.value.kind = "float_list"
             /\ AllOfType(v, FloatTypes) =>
                  ReturnedList("float_list",
                               [i \in DOMAIN v.items |-> Float32(v.items[i].f)])
        /\ v.t = "bytes" => ReturnedList("bytes_list", <<v.b>>)
        /\ v.t \in IntTypes => ReturnedList("int64_list", <<v.i>>)
        /\ v.t \in FloatTypes => ReturnedList("float_list", <<Float32(v.f)>>)
        /\ v.t = "str" => ReturnedList("bytes_list", <<Utf8(v.s)>>)
        /\ (v.t = "list" /\ h.t = "list") =>
             /\ ret.raised = "none" => OneBlob
             /\ IsRectangular(v) =>
                  /\ OneBlob
                  /\ ret.value.value[1].shape = <<Len(v.items), Len(h.items)>>
        /\ v.t = "ndarray" =>
             /\ OneBlob
             /\ ret.value.value[1] = TensorBlob(v.dtype, v.shape, v.data)
        /\ v.t = "NoneType" => ret = Ok(EmptyFeature)

\* Witness of C5: an untagged list of two floats came back as a float_list.
C5_Witness ==
  /\ EncDone /\ Untagged
  /\ arg.value.t = "list"
  /\ Len(arg.value.items) = 2
  /\ AllOfType(arg.value, FloatTypes)
  /\ Returned("float_list")

SupportedHead(v) ==
  IF v.t = "list"
    THEN HeadOf(v).t \in {"bytes", "list"} \cup IntTypes \cup FloatTypes
    ELSE v.t \in {"bytes", "str", "ndarray", "NoneType"} \cup IntTypes \cup FloatTypes

\* C6: a value whose classification is none of the nine supported shapes (a
\* list headed by text, None or an array, a scalar of another type), and every
\* explicit tag outside the supported set, raises ValueError: no field is
\* returned.  (The empty list, which has no first element, is C7's case.)
C6_UnsupportedRaisesValueError ==
  EncDone =>
    /\ (~Untagged /\ ~IsSupportedTag(arg.value_type)) => ret = Raise("ValueError")
    /\ (Untagged /\ HasHead(arg.value) /\ ~SupportedHead(arg.value)) =>
         ret = Raise("ValueError")

\* Witness of C6: an untagged list headed by a text string was rejected.
C6_Witness ==
  /\ EncDone /\ Untagged
  /\ arg.value.t = "list" /\ arg.value.items # <<>>
  /\ HeadOf(arg.value).t = "str"
  /\ ret = Raise("ValueError")

\* C7: an untagged empty list resolves to an outcome of the encoder contract:
\* a field, or the encoding error ValueError, and no other failure.
C7_EmptyListWithinContract ==
  (EncDone /\ Untagged /\ arg.value = PyList(<<>>)) =>
    ret.raised \in {"none", "ValueError"}

(***************************************************************************)
(* Claims about create_tf_example (checked under AsmSpec).                 *)
(***************************************************************************)
AsmDone == pc = "asm_done"

Stored(key) == key \in DOMAIN ret.feature_dict

Field(key) == ret.feature_dict[key]

LabelKey == "image/object/class/label"

\* C8: when the label has been stored, the call returns an Example and the
\* field image/object/class/label is an int64 feature; for an integer category
\* its int64 list holds that integer.
C8_LabelIsInt64Feature ==
  (AsmDone /\ Stored(LabelKey)) =>
    /\ ret.raised = "none"
    /\ IsFeature(Field(LabelKey))
    /\ Field(LabelKey).kind = "int64_list"
    /\ arg["category"].t = "int" => Field(LabelKey).value = <<arg["category"].i>>

IntrinsicKey == "camera/intrinstic_mat"

HeightOf(image) == NumberOf(image["img_size"].items[1])

WidthOf(image) == NumberOf(image["img_size"].items[2])

\* [f * (width / 32), width / 2, height / 2] at the precision of a float list.
ExpectedIntrinsic(image) ==
  <<Float32(RMul(NumberOf(image["focal_length"]), RDiv(WidthOf(image), FromInt(32)))),
    Float32(RDiv(WidthOf(image), FromInt(2))),
    Float32(RDiv(HeightOf(image), FromInt(2)))>>

IsChairCamera(image) ==
  /\ image["img_size"] = PyList(<<PyInt(2016), PyInt(1512)>>)
  /\ image["focal_length"] = PyFloat(<<36, 1>>)

\* C9: once the voxel fields are in place the camera fields follow, and
\* camera/intrinstic_mat is the float list of length 3
\* [f * (width / 32), width / 2, height / 2], in that order; for width 1512,
\* height 2016 and f = 36.0 it is [1701.0, 756.0, 1008.0].
C9_IntrinsicVector ==
  /\ (AsmDone /\ Stored("model/voxel_shape")) => Stored(IntrinsicKey)
  /\ (AsmDone /\ Stored(IntrinsicKey)) =>
       /\ Field(IntrinsicKey).kind = "float_list"
       /\ Len(Field(IntrinsicKey).value) = 3
       /\ Field(IntrinsicKey).value = ExpectedIntrinsic(arg)
  /\ (AsmDone /\ Stored(IntrinsicKey) /\ IsChairCamera(arg)) =>
       Field(IntrinsicKey).value = <<FromInt(1701), FromInt(756), FromInt(1008)>>

C9_Witness ==
  /\ AsmDone
  /\ IsChairCamera(arg)
  /\ Stored(IntrinsicKey)
  /\ Field(IntrinsicKey) =
       [kind |-> "float_list", value |-> <<FromInt(1701), FromInt(756), FromInt(1008)>>]

BoxKeys ==
  <<"image/object/bbox/xmin", "image/object/bbox/ymin",
    "image/object/bbox/xmax", "image/object/bbox/ymax">>

BoxStored == \A i \in DOMAIN BoxKeys : Stored(BoxKeys[i])

\* The i-th pixel coordinate of the annotation's box.
Coordinate(i) == arg["bbox"].items[i].i

\* x coordinates go with the width, y coordinates with the height.
SizeFor(i) == IF i \in {1, 3} THEN WidthOf(arg) ELSE HeightOf(arg)

StoredSizeFor(i) ==
  IF i \in {1, 3} THEN Field("image/width").value[1] ELSE Field("image/height").value[1]

NormalizedAs(i) ==
  Field(BoxKeys[i]) =
    [kind |-> "float_list", value |-> <<Float32(RDiv(FromInt(Coordinate(i)), SizeFor(i)))>>]

\* round(stored * size, 0) gives the pixel coordinate back.
Recovers(i) ==
  PyRound(RMul(Field(BoxKeys[i]).value[1], FromInt(StoredSizeFor(i)))) = Coordinate(i)

HasPixelBox ==
  /\ AsmDone
  /\ Stored(IntrinsicKey)
  /\ Len(arg["bbox"].items) = 4
  /\ HeightOf(arg)[1] > 0
  /\ WidthOf(arg)[1] > 0

\* The magnitude below which a float32 quotient still rounds back exactly.
ExactLimit == 2 ^ (MantBits - 1)

\* C10 as stated: for every positive image size and every integer pixel
\* box the four fields hold xmin/W, ymin/H, xmax/W, ymax/H, and the stored value
\* times the stored width or height, rounded, is the original integer.
C10_EveryBoxRoundTrips ==
  HasPixelBox =>
    /\ BoxStored
    /\ \A i \in DOMAIN BoxKeys : NormalizedAs(i) /\ Recovers(i)

\* C10, amended: the four fields hold xmin/W, ymin/H, xmax/W, ymax/H for every
\* integer pixel box, and the round trip recovers every coordinate whose
\* magnitude is below 2^23.
C10_BoundedBoxRoundTrips ==
  HasPixelBox =>
    /\ BoxStored
    /\ \A i \in DOMAIN BoxKeys :
         /\ NormalizedAs(i)
         /\ Abs(Coordinate(i)) < ExactLimit => Recovers(i)

C10_Witness ==
  /\ HasPixelBox
  /\ BoxStored
  /\ arg["bbox"] = PyList(<<PyInt(10), PyInt(20), PyInt(110), PyInt(220)>>)
  /\ arg["img_size"] = PyList(<<PyInt(100), PyInt(120)>>)
  /\ Field(BoxKeys[1]).value = <<Float32(<<1, 12>>)>>
  /\ \A i \in DOMAIN BoxKeys : Recovers(i)

(***************************************************************************)
(* Claims about the conversion run (checked under Spec).                   *)
(***************************************************************************)
RECURSIVE CountWritten(_)
CountWritten(ws) == IF ws = <<>> THEN 0 ELSE Len(Head(ws)) + CountWritten(Tail(ws))

InShardWork == pc \in {"writing", "done"}

\* C1: through the writer's loop the Examples written over all shards plus the
\* skip count equal the number of annotations handled, and at the end of the
\* run they equal M, the number of annotations of the index.
C1_WrittenPlusSkipped ==
  /\ InShardWork => CountWritten(writers) + num_skipped = idx
  /\ pc = "done" =>
       /\ Len(annotations) = Len(index_file.records)
       /\ CountWritten(writers) + num_skipped = Len(index_file.records)

C1_Witness ==
  /\ pc = "done"
  /\ Len(annotations) >= 2
  /\ num_shards >= 2
  /\ Len(writers) = num_shards
  /\ CountWritten(writers) + num_skipped = Len(annotations)

\* Every file the annotation refers to is present and well-formed.
WellFormed(image) ==
  /\ GFileRead(PathJoin(image["pix3d_dir"], image["img"])).raised = "none"
  /\ GFileRead(PathJoin(image["pix3d_dir"], image["mask"])).raised = "none"
  /\ parse_obj_file(FileAt(PathJoin(image["pix3d_dir"], image["model"]))).raised = "none"
  /\ parse_voxel_file(FileAt(PathJoin(image["pix3d_dir"], image["voxel"]))).raised = "none"

\* The shard of the j-th annotation (1-based j) holds the Example made from it.
WrittenToItsShard(j) ==
  \E k \in DOMAIN writers[((j - 1) % num_shards) + 1] :
    writers[((j - 1) % num_shards) + 1][k].features["image/source_id"] =
      BytesList(<<Utf8(ToString(annotations[j]["image_id"]))>>)

\* C2: after an annotation whose assembly failed on a missing or malformed
\* file the run goes on, that annotation counts one skip, and every later
\* annotation whose files are well-formed has been written to its shard by the
\* end of the run.
C2_FailureIsIsolated ==
  /\ (InShardWork /\ idx > 0 /\ frame.raised # "none") => pc # "aborted"
  /\ pc = "done" =>
       \A i \in DOMAIN annotations : \A j \in DOMAIN annotations :
         (i < j /\ ~WellFormed(annotations[i]) /\ WellFormed(annotations[j])) =>
           /\ num_skipped >= 1
           /\ WrittenToItsShard(j)

ExampleKeys ==
  {"image/height", "image/width", "image/filename", "image/source_id",
   "image/encoded", "image/format", "image/object/mask", "model/vertices",
   "model/faces", "model/voxel_indices", "model/voxel_shape", "camera/rot_mat",
   "camera/trans_mat", "camera/intrinstic_mat", "image/object/bbox/xmin",
   "image/object/bbox/ymin", "image/object/bbox/xmax", "image/object/bbox/ymax",
   "image/object/class/label", "image/object/is_crowd"}

\* A record that holds every field of an Example, each an encoded feature.
IsComplete(rec) ==
  /\ rec.proto = "Example"
  /\ DOMAIN rec.features = ExampleKeys
  /\ \A k \in ExampleKeys : IsFeature(rec.features[k])

\* The annotations handled so far that went to shard s and were assembled.
AssembledFor(s) ==
  {j \in 1..idx : /\ ((j - 1) % num_shards) + 1 = s
                  /\ create_tf_example(annotations[j]).raised = "none"}

\* C3: every record of every shard is a complete Example, the one assembled
\* from an annotation of that shard whose assembly succeeded, each such
\* annotation giving one record; a failed assembly leaves no record.
C3_OnlyCompleteExamples ==
  \A s \in DOMAIN writers :
    /\ Len(writers[s]) = Cardinality(AssembledFor(s))
    /\ \A k \in DOMAIN writers[s] :
         /\ IsComplete(writers[s][k])
         /\ \E j \in AssembledFor(s) :
              writers[s][k] = Serialize(create_tf_example(annotations[j]).value[1])

C3_Witness ==
  /\ InShardWork
  /\ frame.raised \notin {"none", "nocall"}
  /\ "model/vertices" \in DOMAIN frame.feature_dict
  /\ "model/voxel_shape" \notin DOMAIN frame.feature_dict
  /\ \A s \in DOMAIN writers : writers[s] = <<>>

\* A shard file exists or an annotation has been handed to create_tf_example.
ShardWork == writers # <<>> \/ idx > 0 \/ frame # NoCall \/ InShardWork

SetupDone == out_dir = "exists" /\ index_file.state = "ok"

\* C4: shard work is found only after the output directory exists and the
\* index has been loaded, and a run that aborted, or whose directory or index
\* cannot be had, has done no shard work.
C4_SetupPrecedesShardWork ==
  /\ ShardWork => SetupDone
  /\ pc = "aborted" => ~ShardWork
  /\ (out_dir = "uncreatable" \/ index_file.state # "ok") =>
       /\ ~ShardWork
       /\ pc \in {"start", "dir_ready", "aborted"}

C4_Witness ==
  /\ pc = "aborted"
  /\ out_dir = "exists"
  /\ index_file.state = "malformed"
  /\ writers = <<>>
  /\ idx = 0
  /\ frame = NoCall

(***************************************************************************)
(* Specification ObjSpec: parse_obj_file applied to one file.              *)
(***************************************************************************)
\* Lines of a mesh file: vertices, a normal, a comment, faces with texture and
\* normal sub-indices, a vertex with two spaces between coordinates, a face
\* with a space before the line end, a vertex that is not numeric, a quad.
ObjLines ==
  <<<<"v", " ", "0", ".", "5", " ", "-", "1", " ", "2", "\n">>,
    <<"v", " ", "1", " ", "2", " ", "3", "\n">>,
    <<"v", "n", " ", "0", " ", "0", " ", "1", "\n">>,
    <<"#", " ", "c", "\n">>,
    <<"f", " ", "1", "/", "1", " ", "2", "/", "2", " ", "1", "/", "3", "\n">>,
    <<"f", " ", "2", "/", "/", "1", " ", "1", "/", "/", "2", " ", "2", "/", "/", "2", "\n">>,
    <<"v", " ", "1", " ", " ", "2", " ", "3", "\n">>,
    <<"f", " ", "1", " ", "2", " ", "3", " ", "\n">>,
    <<"v", " ", "1", " ", "x", " ", "2", "\n">>,
    <<"f", " ", "1", " ", "2", " ", "3", " ", "4", "\n">>>>

MaxLines == 3

RECURSIVE LineChoices(_)
LineChoices(n) ==
  IF n = 0 THEN {<<>>}
  ELSE {Append(ks, k) : ks \in LineChoices(n - 1), k \in DOMAIN ObjLines}

ObjInit ==
  /\ pc = "obj_call"
  /\ RunIdle
  /\ ret = NoCall
  /\ \/ arg \in {Absent, FileBytes("obj-binary")}
     \/ \E n \in 0..MaxLines : \E ks \in LineChoices(n) :
          arg = FileText("obj", [i \in DOMAIN ks |-> ObjLines[ks[i]]])

ParseObj ==
  /\ pc = "obj_call"
  /\ ret' = parse_obj_file(arg)
  /\ pc' = "obj_done"
  /\ UNCHANGED <<out_dir, index_file, num_shards, annotations, writers, idx,
                 num_skipped, frame, arg>>

ObjNext == ParseObj

ObjSpec == ObjInit /\ [][ObjNext]_vars

(***************************************************************************)
(* Claims about parse_obj_file (checked under ObjSpec).                    *)
(***************************************************************************)
ObjDone == pc = "obj_done" /\ arg.kind = "text"

\* The maximal runs of non-whitespace characters of s, in order.
RECURSIVE WsTokens(_)
WsTokens(s) ==
  IF s = <<>> THEN <<>>
  ELSE IF IsSpace(s[1]) THEN WsTokens(Tail(s))
  ELSE LET n == IF \E i \in DOMAIN s : IsSpace(s[i])
                  THEN (CHOOSE i \in DOMAIN s :
                          IsSpace(s[i]) /\ \A j \in 1..(i - 1) : ~IsSpace(s[j])) - 1
                  ELSE Len(s)
       IN  <<SubSeq(s, 1, n)>> \o WsTokens(SubSeq(s, n + 1, Len(s)))

IsFloatText(tok) == PyFloatOf(tok).raised = "none"

\* A face group: an integer, optionally followed by "/"-separated sub-indices.
IsGroupText(tok) ==
  /\ PyIntOf(Split(tok, "/")[1]).raised = "none"
  /\ \A i \in 2..Len(Split(tok, "/")) : AllDigits(Split(tok, "/")[i])

VertexLines(lines) == SelectLines(lines, <<"v", " ">>)

FaceLines(lines) == SelectLines(lines, <<"f", " ">>)

\* What a line holds after its two-character prefix.
Payload(line) == WsTokens(DropChars(line, 2))

\* Every "v " line holds floating-point coordinates and every "f " line face
\* groups, separated by whitespace, with as many on each line of a kind.
WellFormedMesh(lines) ==
  /\ \A i \in DOMAIN VertexLines(lines) :
       /\ Payload(VertexLines(lines)[i]) # <<>>
       /\ Len(Payload(VertexLines(lines)[i])) = Len(Payload(VertexLines(lines)[1]))
       /\ \A t \in DOMAIN Payload(VertexLines(lines)[i]) :
            IsFloatText(Payload(VertexLines(lines)[i])[t])
  /\ \A i \in DOMAIN FaceLines(lines) :
       /\ Payload(FaceLines(lines)[i]) # <<>>
       /\ Len(Payload(FaceLines(lines)[i])) = Len(Payload(FaceLines(lines)[1]))
       /\ \A t \in DOMAIN Payload(FaceLines(lines)[i]) :
            IsGroupText(Payload(FaceLines(lines)[i])[t])

\* The coordinates of the "v " lines, line after line in file order.
ExpectedVertices(lines) ==
  Concat([i \in DOMAIN VertexLines(lines) |->
            [t \in DOMAIN Payload(VertexLines(lines)[i]) |->
               PyFloatOf(Payload(VertexLines(lines)[i])[t]).value]])

\* The first sub-index of every group of the "f " lines, in file order.
ExpectedFaces(lines) ==
  Concat([i \in DOMAIN FaceLines(lines) |->
            [t \in DOMAIN Payload(FaceLines(lines)[i]) |->
               PyIntOf(Split(Payload(FaceLines(lines)[i])[t], "/")[1]).value]])

\* C11: for a well-formed mesh text with V "v " lines and F "f " lines among
\* any other lines, parse_obj_file returns V vertices and F faces in file
\* order, each face holding the first sub-index of each of its groups as
\* written, and the other lines contribute nothing.
C11_ParsesWellFormedMesh ==
  (ObjDone /\ WellFormedMesh(arg.lines)) =>
    /\ ret.raised = "none"
    /\ ret.value.vertices.shape[1] = Len(VertexLines(arg.lines))
    /\ ret.value.faces.shape[1] = Len(FaceLines(arg.lines))
    /\ ret.value.vertices.data = ExpectedVertices(arg.lines)
    /\ ret.value.faces.data = ExpectedFaces(arg.lines)

(***************************************************************************)
(* Specification VoxSpec: parse_voxel_file applied to one file.            *)
(***************************************************************************)
VoxShapes == << <<1, 2, 3>>, <<2, 2, 2>>, <<3, 1, 2>>, <<2, 3, 1>>, <<1, 1, 1>> >>

MaxOccupied == 2

\* Occupancy values of an occupied cell.
Levels == <<1, 255>>

\* The array of the given shape whose occupied cells (numbered in row-major
\* order) are the given ones.
VoxelOf(shape, cells, level) ==
  NdArray("uint8", shape,
          [n \in 1..(shape[1] * shape[2] * shape[3]) |-> IF n \in cells THEN level ELSE 0])

\* An array with negative entries, which are not occupied.
SignedVoxel == NdArray("int8", <<1, 2, 2>>, <<-1, 2, 0, 1>>)

VoxInit ==
  /\ pc = "vox_call"
  /\ RunIdle
  /\ ret = NoCall
  /\ \/ \E path \in DOMAIN Disk \cup {"pix3d/model/chair/none.mat"} : arg = FileAt(path)
     \/ arg = FileMat("mat-signed", [voxel |-> SignedVoxel])
     \/ \E s \in DOMAIN VoxShapes, l \in DOMAIN Levels :
          \E cells \in SUBSET (1..(VoxShapes[s][1] * VoxShapes[s][2] * VoxShapes[s][3])) :
            /\ Cardinality(cells) <= MaxOccupied
            /\ arg = FileMat("mat", [voxel |-> VoxelOf(VoxShapes[s], cells, Levels[l])])

ParseVoxel ==
  /\ pc = "vox_call"
  /\ ret' = parse_voxel_file(arg)
  /\ pc' = "vox_done"
  /\ UNCHANGED <<out_dir, index_file, num_shards, annotations, writers, idx,
                 num_skipped, frame, arg>>

VoxNext == ParseVoxel

VoxSpec == VoxInit /\ [][VoxNext]_vars

(***************************************************************************)
(* Claims about parse_voxel_file (checked under VoxSpec).                  *)
(***************************************************************************)
\* The call is over and the file held a rank-3 array under the key "voxel".
VoxDoneRank3 ==
  /\ pc = "vox_done"
  /\ arg.kind = "mat"
  /\ "voxel" \in DOMAIN arg.vars
  /\ Len(arg.vars["voxel"].shape) = 3

StoredShape == arg.vars["voxel"].shape

\* C12: for a rank-3 array the shape returned has three elements and equals
\* the shape of the array as stored in the file.
C12_ShapeIsInputShape ==
  VoxDoneRank3 =>
    /\ ret.raised = "none"
    /\ Len(ret.value.voxel_shape.items) = 3
    /\ ret.value.voxel_shape = PyList([i \in 1..3 |-> PyInt(StoredShape[i])])

\* One 90-degree step in the plane of the second and third axes: where the
\* cell at coordinate c of a grid of the given shape comes to lie, and the
\* shape of the turned grid.
QuarterTurn(cell) ==
  [coord |-> <<cell.coord[1], cell.shape[3] - 1 - cell.coord[3], cell.coord[2]>>,
   shape |-> <<cell.shape[1], cell.shape[3], cell.shape[2]>>]

Rotated270(c) == QuarterTurn(QuarterTurn(QuarterTurn([coord |-> c, shape |-> StoredShape])))

\* The coordinates of the stored array whose occupancy is greater than zero.
OccupiedCells ==
  {c \in (0..(StoredShape[1] - 1)) \X (0..(StoredShape[2] - 1)) \X (0..(StoredShape[3] - 1)) :
     At3(arg.vars["voxel"], c[1], c[2], c[3]) > 0}

NumRows == ret.value.voxel_indices.shape[1]

IndexRow(r) ==
  <<ret.value.voxel_indices.data[3 * (r - 1) + 1],
    ret.value.voxel_indices.data[3 * (r - 1) + 2],
    ret.value.voxel_indices.data[3 * (r - 1) + 3]>>

DatasetRoots == <<"pix3d", "data/pix3d">>

GenInit ==
  /\ pc = "gen_call"
  /\ RunIdle
  /\ ret = NoCall
  /\ \E n \in 0..MaxAnn : \E ks \in [1..n -> DOMAIN Profiles] : \E d \in DOMAIN DatasetRoots :
       arg = [annotation_dict |-> [i \in 1..n |-> Profiles[ks[i]]],
              pix3d_dir |-> DatasetRoots[d]]

Generate ==
  /\ pc = "gen_call"
  /\ ret' = generate_annotations(arg.annotation_dict, arg.pix3d_dir)
  /\ pc' = "gen_done"
  /\ UNCHANGED <<out_dir, index_file, num_shards, annotations, writers, idx,
                 num_skipped, frame, arg>>

GenNext == Generate

GenSpec == GenInit /\ [][GenNext]_vars

(***************************************************************************)
(* Claims about generate_annotations (checked under GenSpec).              *)
(***************************************************************************)
\* The call is over and every record of the index had every copied key.
GenDoneComplete ==
  /\ pc = "gen_done"
  /\ \A i \in DOMAIN arg.annotation_dict : CopiedKeys \subseteq DOMAIN arg.annotation_dict[i]

\* C14: generate_annotations returns one annotation per record of the index,
\* in index order; the k-th record (0-based) gets image_id = k, so the ids are
\* distinct and are exactly 0..M-1; every annotation carries the dataset root
\* the call was given.
C14_OneAnnotationPerRecord ==
  GenDoneComplete =>
    /\ ret.raised = "none"
    /\ Len(ret.value) = Len(arg.annotation_dict)
    /\ \A k \in DOMAIN ret.value :
         /\ ret.value[k]["image_id"] = k - 1
         /\ ret.value[k]["pix3d_dir"] = arg.pix3d_dir
         /\ \A key \in CopiedKeys : ret.value[k][key] = arg.annotation_dict[k][key]
    /\ \A j \in DOMAIN ret.value : \A k \in DOMAIN ret.value :
         ret.value[j]["image_id"] = ret.value[k]["image_id"] => j = k
    /\ {ret.value[k]["image_id"] : k \in DOMAIN ret.value} = 0..(Len(arg.annotation_dict) - 1)

C14_Witness ==
  /\ GenDoneComplete
  /\ ret.raised = "none"
  /\ Len(ret.value) = 2
  /\ arg.annotation_dict[1] # arg.annotation_dict[2]
  /\ arg.pix3d_dir = "data/pix3d"
  /\ ret.value[1]["image_id"] = 0
  /\ ret.value[2]["image_id"] = 1
  /\ ret.value[2]["img"] = arg.annotation_dict[2]["img"]
  /\ ret.value[2]["pix3d_dir"] = "data/pix3d"
====
